---- MODULE Spec2Model ----
\* Batch genealogy dashboard: the session state of app.py, the graph builder
\* and bill of materials of model.py, and the trace, layout and statistics
\* queries of graph_view.py / model.py.
EXTENDS Integers, Sequences, FiniteSets, TLC

\* ---------------------------------------------------------------- bounds
\* Abstract graphs (SpecTrace, SpecBfs) have at most MaxNodes nodes and
\* MaxEdges edges; a data source may return the sample data short of at most
\* MaxMissing records.
MaxNodes == 3

MaxEdges == 3

MaxMissing == 1

\* ---------------------------------------------------------------- values
\* Python's None, a pandas NaN cell, an empty dict.
NoneVal == "None"

NaN == "NaN"

EmptyDict == [k \in {} |-> NaN]

\* A session slot holding None (st.session_state.G / .data before a load).
None == [none |-> TRUE]

\* Python truthiness of a target id: None and the empty string are falsy.
Truthy(x) == x \notin {NoneVal, ""}

\* dict.get(key): None when the key is absent.
Get(d, key) == IF key \in DOMAIN d THEN d[key] ELSE NoneVal

ToSet(s) == {s[i] : i \in 1..Len(s)}

RECURSIVE SetToSeq(_)
\* The members of a finite set in some fixed order.
SetToSeq(S) ==
  IF S = {} THEN <<>>
  ELSE LET x == CHOOSE y \in S : TRUE IN <<x>> \o SetToSeq(S \ {x})

\* --------------------------------------------------------- sample data
raw_materials ==
  << [batch_id |-> "RM-API-001", type |-> "Raw Material", material |-> "Paracetamol API", quantity |-> 100, unit |-> "kg", status |-> "Approved", quality |-> "A", lot |-> "LOT-API-2024-001", manufacturer |-> "API Corp"],
     [batch_id |-> "RM-EXC-001", type |-> "Raw Material", material |-> "Microcrystalline Cellulose", quantity |-> 200, unit |-> "kg", status |-> "Approved", quality |-> "A", lot |-> "LOT-EXC-2024-001", manufacturer |-> "Excipient Co"],
     [batch_id |-> "RM-EXC-002", type |-> "Raw Material", material |-> "Croscarmellose Sodium", quantity |-> 50, unit |-> "kg", status |-> "Approved", quality |-> "A", lot |-> "LOT-EXC-2024-002", manufacturer |-> "Excipient Co"],
     [batch_id |-> "RM-EXC-003", type |-> "Raw Material", material |-> "Magnesium Stearate", quantity |-> 10, unit |-> "kg", status |-> "Approved", quality |-> "A", lot |-> "LOT-EXC-2024-003", manufacturer |-> "Excipient Co"],
     [batch_id |-> "RM-SOL-001", type |-> "Raw Material", material |-> "Purified Water", quantity |-> 500, unit |-> "L", status |-> "Approved", quality |-> "A", lot |-> "LOT-SOL-2024-001", manufacturer |-> "Water Co"] >>

intermediates ==
  << [batch_id |-> "INT-BLEND-001", type |-> "Intermediate", material |-> "Paracetamol Blend", quantity |-> 150, unit |-> "kg", status |-> "In Progress", quality |-> "A", product |-> "Paracetamol 500mg"],
     [batch_id |-> "INT-GRAN-001", type |-> "Intermediate", material |-> "Wet Granulation", quantity |-> 160, unit |-> "kg", status |-> "In Progress", quality |-> "A", product |-> "Paracetamol 500mg"],
     [batch_id |-> "INT-BLEND-002", type |-> "Intermediate", material |-> "Antibiotic Blend", quantity |-> 120, unit |-> "kg", status |-> "In Progress", quality |-> "A", product |-> "Antibiotic 250mg"],
     [batch_id |-> "INT-SOL-001", type |-> "Intermediate", material |-> "Coating Solution", quantity |-> 80, unit |-> "L", status |-> "Ready", quality |-> "A", product |-> "Film Coating"] >>

finished_products ==
  << [batch_id |-> "FP-TAB-001", type |-> "Finished Product", material |-> "Paracetamol 500mg Tablets", quantity |-> 100000, unit |-> "tablets", status |-> "Released", quality |-> "A", product |-> "Paracetamol 500mg", expiry_date |-> "2025-12-31"],
     [batch_id |-> "FP-TAB-002", type |-> "Finished Product", material |-> "Paracetamol 500mg Tablets", quantity |-> 150000, unit |-> "tablets", status |-> "Released", quality |-> "A", product |-> "Paracetamol 500mg", expiry_date |-> "2025-12-31"],
     [batch_id |-> "FP-TAB-003", type |-> "Finished Product", material |-> "Antibiotic 250mg Tablets", quantity |-> 80000, unit |-> "tablets", status |-> "Released", quality |-> "A", product |-> "Antibiotic 250mg", expiry_date |-> "2025-10-31"],
     [batch_id |-> "FP-CAP-001", type |-> "Finished Product", material |-> "Vitamin C 500mg Capsules", quantity |-> 50000, unit |-> "capsules", status |-> "Released", quality |-> "A", product |-> "Vitamin C 500mg", expiry_date |-> "2025-09-30"] >>

all_batches == raw_materials \o intermediates \o finished_products

\* The columns pd.DataFrame(all_batches) gets: the union of the records' keys.
Columns ==
  {"batch_id", "type", "material", "quantity", "unit", "status", "quality",
   "lot", "manufacturer", "product", "expiry_date"}

\* Month lengths of 2024, the year of start_date.
MonthDays == <<31, 29, 31, 30, 31, 30, 31, 31, 30, 31, 30, 31>>

RECURSIVE DateFrom(_, _)
\* The date `days` days after the first of month m of 2024, as <<Y, m, d>>
\* (strftime('%Y-%m-%d') prints these three fields).
DateFrom(m, days) ==
  IF days < MonthDays[m] THEN <<2024, m, days + 1>>
  ELSE DateFrom(m + 1, days - MonthDays[m])

\* start_date + timedelta(days=i*7), i the 0-based row index.
manufacturing_date(i) == DateFrom(1, i * 7)

\* pd.DataFrame(batches) with the manufacturing_date column added: a key a
\* record lacks becomes a NaN cell.
DataFrame(batches) ==
  [rows |->
     [i \in 1..Len(batches) |->
        [c \in Columns \cup {"manufacturing_date"} |->
           IF c = "manufacturing_date" THEN manufacturing_date(i - 1)
           ELSE IF c \in DOMAIN batches[i] THEN batches[i][c]
           ELSE NaN]]]

create_sample_data == DataFrame(all_batches)

RECURSIVE Without(_, _)
\* The records of `batches` whose batch_id is not in `missing`, in order.
Without(batches, missing) ==
  IF batches = <<>> THEN <<>>
  ELSE IF Head(batches).batch_id \in missing THEN Without(Tail(batches), missing)
  ELSE <<Head(batches)>> \o Without(Tail(batches), missing)

BatchIds == {all_batches[i].batch_id : i \in 1..Len(all_batches)}

\* What the data source of build_batch_genealogy_graph may return ("Replace
\* with your actual data loading"): the sample data, or the sample data short
\* of some records.
DataSets ==
  {DataFrame(Without(all_batches, m)) :
     m \in {s \in SUBSET BatchIds : Cardinality(s) <= MaxMissing}}

\* ------------------------------------------------------------- DiGraph
\* nx.DiGraph: nodes in insertion order, a dict of attributes per node, the
\* set of directed edges, a dict of attributes per edge.
EmptyGraph ==
  [nodes |-> <<>>, attrs |-> EmptyDict, edges |-> {}, eattrs |-> EmptyDict]

NodeSet(g) == ToSet(g.nodes)

\* G.add_node(n, **attrs): a new node is appended; an existing node keeps its
\* place and has its attributes updated.
add_node(g, n, attrs) ==
  IF n \in NodeSet(g)
    THEN [g EXCEPT !.attrs = (n :> (attrs @@ g.attrs[n])) @@ g.attrs]
    ELSE [g EXCEPT !.nodes = Append(g.nodes, n),
                   !.attrs = (n :> attrs) @@ g.attrs]

\* G.add_edge(u, v, **attrs): an endpoint that is no node yet is created with
\* no attributes, u first.
add_edge(g, u, v, attrs) ==
  LET g1 == IF u \in NodeSet(g) THEN g ELSE add_node(g, u, EmptyDict)
      g2 == IF v \in NodeSet(g1) THEN g1 ELSE add_node(g1, v, EmptyDict)
      e  == <<u, v>>
  IN IF e \in g2.edges
       THEN [g2 EXCEPT !.eattrs = (e :> (attrs @@ g2.eattrs[e])) @@ g2.eattrs]
       ELSE [g2 EXCEPT !.edges = g2.edges \cup {e},
                       !.eattrs = (e :> attrs) @@ g2.eattrs]

successors(g, n) == {e[2] : e \in {d \in g.edges : d[1] = n}}

predecessors(g, n) == {e[1] : e \in {d \in g.edges : d[2] = n}}

\* ------------------------------------------- build_batch_genealogy_graph
\* Mutant: one consumption is stored from the consumer to the material.
raw_to_intermediate_reversed ==
  << <<"RM-API-001", "INT-BLEND-001", [relationship |-> "consumed_by", quantity |-> 50, unit |-> "kg"]>>,
     <<"RM-EXC-001", "INT-BLEND-001", [relationship |-> "consumed_by", quantity |-> 80, unit |-> "kg"]>>,
     <<"RM-EXC-002", "INT-BLEND-001", [relationship |-> "consumed_by", quantity |-> 20, unit |-> "kg"]>>,
     <<"INT-BLEND-001", "RM-EXC-003", [relationship |-> "consumed_by", quantity |-> 2, unit |-> "kg"]>>,
     <<"RM-SOL-001", "INT-BLEND-001", [relationship |-> "consumed_by", quantity |-> 40, unit |-> "L"]>>,
     <<"RM-API-001", "INT-BLEND-002", [relationship |-> "consumed_by", quantity |-> 40, unit |-> "kg"]>>,
     <<"RM-EXC-001", "INT-BLEND-002", [relationship |-> "consumed_by", quantity |-> 70, unit |-> "kg"]>>,
     <<"RM-EXC-002", "INT-BLEND-002", [relationship |-> "consumed_by", quantity |-> 15, unit |-> "kg"]>> >>

raw_to_intermediate ==
  << <<"RM-API-001", "INT-BLEND-001", [relationship |-> "consumed_by", quantity |-> 50, unit |-> "kg"]>>,
     <<"RM-EXC-001", "INT-BLEND-001", [relationship |-> "consumed_by", quantity |-> 80, unit |-> "kg"]>>,
     <<"RM-EXC-002", "INT-BLEND-001", [relationship |-> "consumed_by", quantity |-> 20, unit |-> "kg"]>>,
     <<"RM-EXC-003", "INT-BLEND-001", [relationship |-> "consumed_by", quantity |-> 2, unit |-> "kg"]>>,
     <<"RM-SOL-001", "INT-BLEND-001", [relationship |-> "consumed_by", quantity |-> 40, unit |-> "L"]>>,
     <<"RM-API-001", "INT-BLEND-002", [relationship |-> "consumed_by", quantity |-> 40, unit |-> "kg"]>>,
     <<"RM-EXC-001", "INT-BLEND-002", [relationship |-> "consumed_by", quantity |-> 70, unit |-> "kg"]>>,
     <<"RM-EXC-002", "INT-BLEND-002", [relationship |-> "consumed_by", quantity |-> 15, unit |-> "kg"]>> >>

\* Mutant: the granulation is also declared to feed the blend it comes from.
intermediate_to_intermediate_rework ==
  << <<"INT-BLEND-001", "INT-GRAN-001", [relationship |-> "produces", quantity |-> 150, unit |-> "kg"]>>,
     <<"INT-GRAN-001", "INT-BLEND-001", [relationship |-> "produces", quantity |-> 150, unit |-> "kg"]>> >>

intermediate_to_intermediate ==
  << <<"INT-BLEND-001", "INT-GRAN-001", [relationship |-> "produces", quantity |-> 150, unit |-> "kg"]>> >>

intermediate_to_finished ==
  << <<"INT-GRAN-001", "FP-TAB-001", [relationship |-> "produces", quantity |-> 100000, unit |-> "tablets"]>>,
     <<"INT-GRAN-001", "FP-TAB-002", [relationship |-> "produces", quantity |-> 150000, unit |-> "tablets"]>>,
     <<"INT-BLEND-002", "FP-TAB-003", [relationship |-> "produces", quantity |-> 80000, unit |-> "tablets"]>>,
     <<"INT-SOL-001", "FP-TAB-001", [relationship |-> "coated_with", quantity |-> 20, unit |-> "L"]>>,
     <<"INT-SOL-001", "FP-TAB-002", [relationship |-> "coated_with", quantity |-> 30, unit |-> "L"]>>,
     <<"INT-SOL-001", "FP-TAB-003", [relationship |-> "coated_with", quantity |-> 15, unit |-> "L"]>> >>

all_edges ==
  raw_to_intermediate \o intermediate_to_intermediate \o intermediate_to_finished

additional_relationships ==
  << <<"RM-API-001", "INT-SOL-001", [relationship |-> "consumed_by", quantity |-> 5, unit |-> "kg"]>>,
     <<"RM-SOL-001", "INT-SOL-001", [relationship |-> "consumed_by", quantity |-> 75, unit |-> "L"]>>,
     <<"RM-EXC-001", "FP-CAP-001", [relationship |-> "consumed_by", quantity |-> 30, unit |-> "kg"]>> >>

\* The folds below test the graph of each iteration before they go on: the
\* test is never true and only makes TLC evaluate one iteration at a time.
RECURSIVE AddNodes(_, _)
\* for _, row in data.iterrows(): pop batch_id, add the node with the rest.
AddNodes(g, rows) ==
  IF rows = <<>> THEN g
  ELSE LET row == Head(rows)
           node_attrs == [c \in DOMAIN row \ {"batch_id"} |-> row[c]]
           g1 == add_node(g, row.batch_id, node_attrs)
       IN IF g1.nodes = <<>> THEN g1 ELSE AddNodes(g1, Tail(rows))

RECURSIVE AddEdges(_, _)
\* for source, target, attrs in all_edges: G.add_edge(source, target, **attrs)
AddEdges(g, es) ==
  IF es = <<>> THEN g
  ELSE LET g1 == add_edge(g, Head(es)[1], Head(es)[2], Head(es)[3])
       IN IF g1.nodes = <<>> THEN g1 ELSE AddEdges(g1, Tail(es))

RECURSIVE AddAdditional(_, _)
\* The additional relationships are added only between existing nodes.
AddAdditional(g, es) ==
  IF es = <<>> THEN g
  ELSE LET e == Head(es)
           g1 == IF e[1] \in NodeSet(g) /\ e[2] \in NodeSet(g)
                   THEN add_edge(g, e[1], e[2], e[3]) ELSE g
       IN IF g1.nodes = <<>> THEN g1 ELSE AddAdditional(g1, Tail(es))

\* Mutant: the additional relationships are left out.
build_without_additional(d) ==
  AddEdges(AddNodes(EmptyGraph, d.rows), all_edges)

\* The graph build_batch_genealogy_graph returns for the data its source gave.
build_batch_genealogy_graph(d) ==
  AddAdditional(AddEdges(AddNodes(EmptyGraph, d.rows), all_edges),
                additional_relationships)

\* ------------------------------------------- nx.descendants / ancestors
\* The traversal behind nx.descendants(G, source) and nx.ancestors(G, source):
\* a breadth-first search that keeps the set of visited nodes, follows the
\* successors (reverse: the predecessors) and yields each newly visited node.
Neighbors(g, n, reverse) ==
  IF reverse THEN predecessors(g, n) ELSE successors(g, n)

BfsInit(source) ==
  [queue |-> <<source>>, visited |-> {source}, out |-> {}, dup |-> FALSE]

\* Mutant: a neighbour is skipped when it is queued, not when it was visited.
BfsStepQueued(g, st, reverse) ==
  LET parent == Head(st.queue)
      new == Neighbors(g, parent, reverse) \ ToSet(Tail(st.queue))
  IN [queue   |-> Tail(st.queue) \o SetToSeq(new),
      visited |-> st.visited \cup new,
      out     |-> st.out \cup new,
      dup     |-> st.dup \/ (new \cap st.out # {})]

\* One iteration on the head of the queue: its neighbours not visited yet are
\* yielded (out), marked visited and queued; dup records a node yielded twice.
BfsStep(g, st, reverse) ==
  LET parent == Head(st.queue)
      new == Neighbors(g, parent, reverse) \ st.visited
  IN [queue   |-> Tail(st.queue) \o SetToSeq(new),
      visited |-> st.visited \cup new,
      out     |-> st.out \cup new,
      dup     |-> st.dup \/ (new \cap st.out # {})]

RECURSIVE BfsRun(_, _, _)
\* while queue: ...
BfsRun(g, st, reverse) ==
  IF st.queue = <<>> THEN st ELSE BfsRun(g, BfsStep(g, st, reverse), reverse)

\* Mutant: the source is not taken out of the nodes reached.
nx_descendants_with_source(g, source) == BfsRun(g, BfsInit(source), FALSE).visited

\* nx.descendants(G, source): {child for parent, child in bfs_edges(G, source)}
nx_descendants(g, source) == BfsRun(g, BfsInit(source), FALSE).out

\* Mutant: the edges are not reversed.
nx_ancestors_not_reversed(g, source) == BfsRun(g, BfsInit(source), FALSE).out

\* nx.ancestors(G, source): the same over the reversed edges.
nx_ancestors(g, source) == BfsRun(g, BfsInit(source), TRUE).out

\* ---------------------------------------------------- nx.shortest_path
RECURSIVE Levels(_, _, _)
\* The breadth-first levels from s: <<{s}, nodes at distance 1, ...>>.
Levels(g, seen, ls) ==
  LET last == ls[Len(ls)]
      nxt == UNION {successors(g, n) : n \in last} \ seen
  IN IF nxt = {} THEN ls ELSE Levels(g, seen \cup nxt, Append(ls, nxt))

RECURSIVE PathsTo(_, _, _, _)
\* The paths from the source of `ls` that reach v, a node of level k (k from
\* 1 for the source itself), one level per hop.
PathsTo(g, ls, v, k) ==
  IF k = 1 THEN {<<v>>}
  ELSE {Append(p, v) :
          p \in UNION {PathsTo(g, ls, u, k - 1) :
                         u \in predecessors(g, v) \cap ls[k - 1]}}

\* Every shortest path from s to t. nx.shortest_path(G, s, t) returns one of
\* them; which one follows from the adjacency insertion order, which the
\* graph of the model does not keep, so any of them may be the result.
shortest_paths(g, s, t) ==
  LET ls == Levels(g, {s}, <<{s}>>)
      k  == CHOOSE i \in 1..Len(ls) : t \in ls[i]
  IN PathsTo(g, ls, t, k)

\* Mutant: the loop stops one pair early, range(len(path) - 2).
PathEdgesShort(path) == {<<path[i], path[i + 1]>> : i \in 1..(Len(path) - 2)}

\* for i in range(len(path) - 1): (path[i], path[i + 1])
PathEdges(path) == {<<path[i], path[i + 1]>> : i \in 1..(Len(path) - 1)}

RECURSIVE EdgeChoices(_, _, _, _)
\* The edge sets the loop over `others` may add to highlight_edges: for each
\* of them the edges of one shortest path between it and the target.
EdgeChoices(g, t, others, forward) ==
  IF others = {} THEN {{}}
  ELSE LET o == CHOOSE x \in others : TRUE
           ps == IF forward THEN shortest_paths(g, t, o)
                 ELSE shortest_paths(g, o, t)
       IN {es \cup PathEdges(p) :
             es \in EdgeChoices(g, t, others \ {o}, forward), p \in ps}

\* ----------------------------------------- calculate_trace_highlights
\* The results of the body of calculate_trace_highlights when its first
\* branch is taken iff fwd and its second iff bwd, with the locals
\* descendants and ancestors (empty when not computed). Nothing in it raises:
\* the target is checked to be a node before nx.descendants / nx.ancestors
\* run, and has_path holds for each of their members.
TraceResults(g, t, fwd, bwd) ==
  IF ~(Truthy(t) /\ t \in NodeSet(g))
    THEN {[descendants |-> {}, ancestors |-> {},
           highlight_nodes |-> {}, highlight_edges |-> {}]}
    ELSE
      LET desc == IF fwd THEN nx_descendants(g, t) ELSE {}
          anc  == IF bwd THEN nx_ancestors(g, t) ELSE {}
      IN {[descendants |-> desc, ancestors |-> anc,
           highlight_nodes |-> {t} \cup desc \cup anc,
           highlight_edges |-> fe \cup be] :
            fe \in EdgeChoices(g, t, desc, TRUE),
            be \in EdgeChoices(g, t, anc, FALSE)}

\* Mutant: the forward branch tests trace_mode != "backward".
calculate_trace_highlights_not_backward(g, t, mode) ==
  TraceResults(g, t, mode # "backward", mode \in {"backward", "both"})

\* Mutant: the backward branch tests trace_mode == "backward" only.
calculate_trace_highlights_both_forward(g, t, mode) ==
  TraceResults(g, t, mode \in {"forward", "both"}, mode = "backward")

\* Mutant: the backward branch tests trace_mode != "forward".
calculate_trace_highlights_not_forward(g, t, mode) ==
  TraceResults(g, t, mode \in {"forward", "both"}, mode # "forward")

\* Mutant: every edge between two highlighted nodes is highlighted.
calculate_trace_highlights_induced(g, t, mode) ==
  {[r EXCEPT !.highlight_edges =
      {e \in g.edges : e[1] \in r.highlight_nodes /\ e[2] \in r.highlight_nodes}] :
     r \in TraceResults(g, t, mode \in {"forward", "both"},
                        mode \in {"backward", "both"})}

\* The results calculate_trace_highlights(G, target_batch_id, trace_mode) may
\* return.
calculate_trace_highlights(g, t, mode) ==
  TraceResults(g, t, mode \in {"forward", "both"}, mode \in {"backward", "both"})

TraceModes == {"none", "forward", "backward", "both"}

\* ------------------------------------------ calculate_pharma_positions
\* kw in str(s).upper(), for the keywords the layout tests and the strings of
\* the model: the pairs below are the ones that hold among the materials and
\* batch ids of the sample data; no other string of the model (an abstract
\* node id, the empty default, "NONE") contains a keyword.
UpperContains ==
  { <<"API", "Paracetamol API">>,
    <<"BLEND", "Paracetamol Blend">>, <<"BLEND", "Antibiotic Blend">>,
    <<"TAB", "FP-TAB-001">>, <<"TAB", "FP-TAB-002">>, <<"TAB", "FP-TAB-003">>,
    <<"CAP", "FP-CAP-001">> }

InUpper(kw, s) == <<kw, s>> \in UpperContains

\* G.nodes[n].get("material", "")
MaterialOf(g, n) ==
  IF "material" \in DOMAIN g.attrs[n] THEN g.attrs[n]["material"] ELSE ""

\* seq[:k]
Take(seq, k) == SubSeq(seq, 1, IF Len(seq) < k THEN Len(seq) ELSE k)

y_start == 100

y_spacing == 120

grid_x == 100

grid_y == 100

RECURSIVE PlaceColumn(_, _, _, _)
\* for i, node in enumerate(col_data["nodes"]): positions[node] = {x, y}
PlaceColumn(pos, x, nodes, i) ==
  IF i > Len(nodes) THEN pos
  ELSE PlaceColumn((nodes[i] :> [x |-> x, y |-> y_start + (i - 1) * y_spacing]) @@ pos,
                   x, nodes, i + 1)

RECURSIVE PlaceColumns(_, _)
\* for col_name, col_data in columns.items(): the columns in dict order.
PlaceColumns(pos, cols) ==
  IF cols = <<>> THEN pos
  ELSE PlaceColumns(PlaceColumn(pos, Head(cols).x, Head(cols).nodes, 1), Tail(cols))

RECURSIVE PlaceGrid(_, _, _)
\* for i, node in enumerate(remaining_nodes[:100]): the grid, ten per row.
PlaceGrid(pos, nodes, i) ==
  IF i > Len(nodes) THEN pos
  ELSE PlaceGrid((nodes[i] :> [x |-> grid_x + ((i - 1) % 10) * 150,
                               y |-> grid_y + ((i - 1) \div 10) * 150]) @@ pos,
                 nodes, i + 1)

calculate_pharma_positions(g, t) ==
  IF Len(g.nodes) = 0 THEN EmptyDict
  ELSE
    LET TypeIs(n, ty) == Get(g.attrs[n], "type") = ty
        raw == SelectSeq(g.nodes, LAMBDA n : TypeIs(n, "Raw Material"))
        apis == SelectSeq(raw, LAMBDA n : InUpper("API", MaterialOf(g, n)))
        excipients == SelectSeq(raw, LAMBDA n : n \notin ToSet(apis))
        inter == SelectSeq(g.nodes, LAMBDA n : TypeIs(n, "Intermediate"))
        blends == SelectSeq(inter, LAMBDA n : InUpper("BLEND", MaterialOf(g, n)))
        solutions == SelectSeq(inter, LAMBDA n : n \notin ToSet(blends))
        fin == SelectSeq(g.nodes, LAMBDA n : TypeIs(n, "Finished Product"))
        tablets == SelectSeq(fin, LAMBDA n : InUpper("TAB", n))
        capsules == SelectSeq(fin, LAMBDA n : InUpper("CAP", n))
        others == SelectSeq(fin, LAMBDA n : n \notin ToSet(tablets) /\ n \notin ToSet(capsules))
        columns ==
          << [x |-> 100,  nodes |-> Take(apis, 20)],
             [x |-> 300,  nodes |-> Take(excipients, 20)],
             [x |-> 500,  nodes |-> Take(blends, 20)],
             [x |-> 700,  nodes |-> Take(solutions, 20)],
             [x |-> 900,  nodes |-> Take(tablets, 20)],
             [x |-> 1100, nodes |-> Take(capsules, 20)],
             [x |-> 1300, nodes |-> Take(others, 20)] >>
        placed == PlaceColumns(EmptyDict, columns)
        all_categorized == UNION {ToSet(columns[i].nodes) : i \in 1..Len(columns)}
        remaining_nodes == SelectSeq(g.nodes, LAMBDA n : n \notin all_categorized)
        positions == PlaceGrid(placed, Take(remaining_nodes, 100), 1)
    IN IF Truthy(t) /\ t \in DOMAIN positions
         THEN (t :> [x |-> 700, y |-> 400]) @@ positions
         ELSE positions

\* ------------------------------------------------------- analyze_graph
\* nx.is_weakly_connected(G): every node is reached from the first one when
\* the edges are followed in both directions. (It raises on a graph with no
\* node: see Analyze.)
is_weakly_connected(g) ==
  LET und == [g EXCEPT !.edges = g.edges \cup {<<e[2], e[1]>> : e \in g.edges}]
  IN nx_descendants(und, g.nodes[1]) \cup {g.nodes[1]} = NodeSet(g)

CountType(g, ty) ==
  Cardinality({n \in NodeSet(g) : Get(g.attrs[n], "type") = ty})

analyze_graph(g) ==
  [total_nodes |-> Len(g.nodes),
   total_edges |-> Cardinality(g.edges),
   raw_materials |-> CountType(g, "Raw Material"),
   intermediates |-> CountType(g, "Intermediate"),
   finished_products |-> CountType(g, "Finished Product"),
   is_connected |-> is_weakly_connected(g)]

\* -------------------------------------------------------- get_bom_list
\* The quantities are in tenths (37.5 kg is 375), the table holding halves.
sample_boms ==
  [x \in {"FP-TAB-001", "FP-TAB-002", "FP-TAB-003"} |->
    CASE x = "FP-TAB-001" ->
      << [material |-> "Paracetamol API", batch_id |-> "RM-API-001", quantity |-> 250, unit |-> "kg", type |-> "Raw Material", status |-> "Approved"],
         [material |-> "Microcrystalline Cellulose", batch_id |-> "RM-EXC-001", quantity |-> 400, unit |-> "kg", type |-> "Raw Material", status |-> "Approved"],
         [material |-> "Croscarmellose Sodium", batch_id |-> "RM-EXC-002", quantity |-> 100, unit |-> "kg", type |-> "Raw Material", status |-> "Approved"],
         [material |-> "Magnesium Stearate", batch_id |-> "RM-EXC-003", quantity |-> 10, unit |-> "kg", type |-> "Raw Material", status |-> "Approved"],
         [material |-> "Purified Water", batch_id |-> "RM-SOL-001", quantity |-> 200, unit |-> "L", type |-> "Raw Material", status |-> "Approved"] >>
    [] x = "FP-TAB-002" ->
      << [material |-> "Paracetamol API", batch_id |-> "RM-API-001", quantity |-> 375, unit |-> "kg", type |-> "Raw Material", status |-> "Approved"],
         [material |-> "Microcrystalline Cellulose", batch_id |-> "RM-EXC-001", quantity |-> 600, unit |-> "kg", type |-> "Raw Material", status |-> "Approved"],
         [material |-> "Croscarmellose Sodium", batch_id |-> "RM-EXC-002", quantity |-> 150, unit |-> "kg", type |-> "Raw Material", status |-> "Approved"],
         [material |-> "Magnesium Stearate", batch_id |-> "RM-EXC-003", quantity |-> 15, unit |-> "kg", type |-> "Raw Material", status |-> "Approved"] >>
    [] x = "FP-TAB-003" ->
      << [material |-> "Antibiotic API", batch_id |-> "RM-API-001", quantity |-> 200, unit |-> "kg", type |-> "Raw Material", status |-> "Approved"],
         [material |-> "Microcrystalline Cellulose", batch_id |-> "RM-EXC-001", quantity |-> 350, unit |-> "kg", type |-> "Raw Material", status |-> "Approved"],
         [material |-> "Croscarmellose Sodium", batch_id |-> "RM-EXC-002", quantity |-> 75, unit |-> "kg", type |-> "Raw Material", status |-> "Approved"] >>]

\* Mutant: an id that is no key of sample_boms gets the first sample table.
get_bom_list_default(batch_id) ==
  IF batch_id \in DOMAIN sample_boms THEN sample_boms[batch_id]
  ELSE sample_boms["FP-TAB-001"]

\* The rows of the DataFrame get_bom_list(batch_id) returns: none for an id
\* that is no key of sample_boms.
get_bom_list(batch_id) ==
  IF batch_id \in DOMAIN sample_boms THEN sample_boms[batch_id] ELSE <<>>

\* ----------------------------------------------------- load_mock_batch
\* batch_db of load_mock_batch: the keys in insertion order, and the record
\* of each key.
batch_db_keys == <<"B001", "API-2025-12-15", "EXC-2026-01-02", "FIN-2026-01-10">>

batch_db ==
  [k \in ToSet(batch_db_keys) |->
    CASE k = "B001" ->
      [batch |-> [id |-> "B001", product |-> "Tablet_A", status |-> "Completed", manufacturing_date |-> "2026-01-07", quantity |-> "100,000 tablets", lot_number |-> "LOT20260107A"],
       consumes |-> << [material_batch |-> "API-2025-12-15", material_name |-> "Active Pharmaceutical Ingredient", quantity |-> "500 kg", specification |-> "API-001-SPEC", supplier |-> "Supplier_A", type |-> "raw"],
                       [material_batch |-> "EXC-2026-01-02", material_name |-> "Excipient Blend", quantity |-> "950 kg", specification |-> "EXC-002-SPEC", supplier |-> "Supplier_B", type |-> "intermediate"],
                       [material_batch |-> "COA-2025-11-30", material_name |-> "Coating Solution", quantity |-> "200 L", specification |-> "COA-003-SPEC", supplier |-> "Supplier_C", type |-> "raw"] >>,
       produces |-> << [product_batch |-> "FIN-2026-01-10", product_name |-> "Finished Tablets", quantity |-> "100,000 bottles", specification |-> "FIN-001-SPEC"] >>,
       parents |-> <<"API-2025-12-15", "EXC-2026-01-02">>,
       children |-> <<"FIN-2026-01-10">>]
    [] k = "API-2025-12-15" ->
      [batch |-> [id |-> "API-2025-12-15", product |-> "Active Pharmaceutical Ingredient", status |-> "Completed", manufacturing_date |-> "2025-12-15", quantity |-> "1000 kg", lot_number |-> "LOT20251215API"],
       consumes |-> << [material_batch |-> "RAW-001", material_name |-> "Chemical Precursor A", quantity |-> "1200 kg", type |-> "raw"],
                       [material_batch |-> "RAW-002", material_name |-> "Solvent B", quantity |-> "5000 L", type |-> "raw"] >>,
       produces |-> << [product_batch |-> "API-2025-12-15", product_name |-> "Active Pharmaceutical Ingredient", quantity |-> "1000 kg"] >>,
       parents |-> <<"RAW-001", "RAW-002">>,
       children |-> <<"B001", "B002">>]
    [] k = "EXC-2026-01-02" ->
      [batch |-> [id |-> "EXC-2026-01-02", product |-> "Excipient Blend", status |-> "Completed", manufacturing_date |-> "2026-01-02", quantity |-> "2000 kg", lot_number |-> "LOT20260102EXC"],
       consumes |-> << [material_batch |-> "MCC-2025-12-20", material_name |-> "Microcrystalline Cellulose", quantity |-> "800 kg", type |-> "raw"],
                       [material_batch |-> "LAC-2025-12-22", material_name |-> "Lactose Monohydrate", quantity |-> "700 kg", type |-> "raw"],
                       [material_batch |-> "MGS-2025-12-18", material_name |-> "Magnesium Stearate", quantity |-> "500 kg", type |-> "raw"] >>,
       produces |-> << [product_batch |-> "EXC-2026-01-02", product_name |-> "Excipient Blend", quantity |-> "2000 kg"] >>,
       parents |-> <<"MCC-2025-12-20", "LAC-2025-12-22", "MGS-2025-12-18">>,
       children |-> <<"B001", "B003">>]
    [] k = "FIN-2026-01-10" ->
      [batch |-> [id |-> "FIN-2026-01-10", product |-> "Finished Tablets", status |-> "Released", manufacturing_date |-> "2026-01-10", quantity |-> "100,000 bottles", lot_number |-> "LOT20260110FIN"],
       consumes |-> << [material_batch |-> "B001", material_name |-> "Tablet Cores", quantity |-> "100,000 tablets", type |-> "intermediate"],
                       [material_batch |-> "PKG-2026-01-09", material_name |-> "Packaging Material", quantity |-> "100,000 units", type |-> "packaging"] >>,
       produces |-> << [product_batch |-> "FIN-2026-01-10", product_name |-> "Finished Product", quantity |-> "100,000 bottles", customer |-> "Hospital Chain XYZ", expiry_date |-> "2027-07-10"] >>,
       parents |-> <<"B001", "PKG-2026-01-09">>,
       children |-> <<>>]]

\* Mutant: an id that is no key gets the last record of the database.
load_mock_batch_last(batch_id) ==
  IF batch_id = "ALL"
    THEN [i \in 1..Len(batch_db_keys) |-> batch_db[batch_db_keys[i]]]
  ELSE IF batch_id \in DOMAIN batch_db THEN batch_db[batch_id]
  ELSE batch_db["FIN-2026-01-10"]

\* load_mock_batch(batch_id): list(batch_db.values()) for "ALL", else
\* batch_db.get(batch_id, batch_db["B001"]).
load_mock_batch(batch_id) ==
  IF batch_id = "ALL"
    THEN [i \in 1..Len(batch_db_keys) |-> batch_db[batch_db_keys[i]]]
  ELSE IF batch_id \in DOMAIN batch_db THEN batch_db[batch_id]
  ELSE batch_db["B001"]

\* ---------------------------------------------------------------- state
VARIABLES
  source,            \* what the data source of the build returns
  graph_loaded,      \* st.session_state.graph_loaded
  G,                 \* st.session_state.G, the graph the queries run on
  data,              \* st.session_state.data
  op,                \* the most recent operation
  target,            \* its target_batch_id / batch_id argument
  trace_mode,        \* its trace_mode argument
  descendants,       \* calculate_trace_highlights: local `descendants`
  ancestors,         \* calculate_trace_highlights: local `ancestors`
  highlight_nodes,   \* calculate_trace_highlights: first result
  highlight_edges,   \* calculate_trace_highlights: second result
  positions,         \* the result of calculate_pharma_positions
  stats,             \* the result of analyze_graph
  bom,               \* the rows of the result of get_bom_list
  pc,                \* where a stepwise traversal stands: idle, running, done
  bfs,               \* its queue, visited set and yielded nodes
  raised,            \* the exception the most recent operation raised
  batch              \* the result of load_mock_batch

vars ==
  <<source, graph_loaded, G, data, op, target, trace_mode, descendants, ancestors,
    highlight_nodes, highlight_edges, positions, stats, bom, pc, bfs, raised,
    batch>>

BfsIdle == [queue |-> <<>>, visited |-> {}, out |-> {}, dup |-> FALSE]

\* The state keeps the results of the most recent call only.
NoTrace ==
  /\ descendants' = {}
  /\ ancestors' = {}
  /\ highlight_nodes' = {}
  /\ highlight_edges' = {}

NoOther ==
  /\ positions' = EmptyDict
  /\ stats' = EmptyDict
  /\ bom' = <<>>

NoResults == NoTrace /\ NoOther

Init ==
  /\ source \in DataSets
  /\ graph_loaded = FALSE
  /\ G = None
  /\ data = None
  /\ op = "init"
  /\ target = NoneVal
  /\ trace_mode = "none"
  /\ descendants = {}
  /\ ancestors = {}
  /\ highlight_nodes = {}
  /\ highlight_edges = {}
  /\ positions = EmptyDict
  /\ stats = EmptyDict
  /\ bom = <<>>
  /\ pc = "idle"
  /\ bfs = BfsIdle
  /\ raised = "none"
  /\ batch = None

\* The "Load & Visualize Batch Tree" button: build_batch_genealogy_graph()
\* reads its data source and returns G, data.
Load ==
  /\ G' = build_batch_genealogy_graph(source)
  /\ data' = source
  /\ graph_loaded' = TRUE
  /\ op' = "load"
  /\ target' = NoneVal
  /\ trace_mode' = "none"
  /\ raised' = "none"
  /\ NoResults
  /\ batch' = None
  /\ UNCHANGED <<source, pc, bfs>>

\* An identifier that names no batch.
UnknownId == "FP-TAB-999"

\* A call calculate_trace_highlights(G, t, mode) on the session's graph.
Trace(t, mode) ==
  /\ G # None
  /\ \E r \in calculate_trace_highlights(G, t, mode) :
       /\ descendants' = r.descendants
       /\ ancestors' = r.ancestors
       /\ highlight_nodes' = r.highlight_nodes
       /\ highlight_edges' = r.highlight_edges
  /\ op' = "trace"
  /\ target' = t
  /\ trace_mode' = mode
  /\ raised' = "none"
  /\ NoOther
  /\ batch' = None
  /\ UNCHANGED <<source, graph_loaded, G, data, pc, bfs>>

\* Mutant: the layout is also stored on the nodes, as attributes x and y.
PositionsStored(t) ==
  /\ G # None
  /\ positions' = calculate_pharma_positions(G, t)
  /\ G' = [G EXCEPT !.attrs =
             [n \in NodeSet(G) |->
                IF n \in DOMAIN positions' THEN positions'[n] @@ G.attrs[n]
                ELSE G.attrs[n]]]
  /\ op' = "positions"
  /\ target' = t
  /\ trace_mode' = "none"
  /\ raised' = "none"
  /\ stats' = EmptyDict
  /\ bom' = <<>>
  /\ NoTrace
  /\ batch' = None
  /\ UNCHANGED <<source, graph_loaded, data, pc, bfs>>

\* A call calculate_pharma_positions(G, t) on the session's graph.
Positions(t) ==
  /\ G # None
  /\ positions' = calculate_pharma_positions(G, t)
  /\ op' = "positions"
  /\ target' = t
  /\ trace_mode' = "none"
  /\ raised' = "none"
  /\ stats' = EmptyDict
  /\ bom' = <<>>
  /\ NoTrace
  /\ batch' = None
  /\ UNCHANGED <<source, graph_loaded, G, data, pc, bfs>>

\* A call analyze_graph(G) on the session's graph; nx.is_weakly_connected
\* raises NetworkXPointlessConcept on a graph with no node.
Analyze ==
  /\ G # None
  /\ IF Len(G.nodes) = 0
       THEN stats' = EmptyDict /\ raised' = "NetworkXPointlessConcept"
       ELSE stats' = analyze_graph(G) /\ raised' = "none"
  /\ op' = "analyze"
  /\ target' = NoneVal
  /\ trace_mode' = "none"
  /\ positions' = EmptyDict
  /\ bom' = <<>>
  /\ NoTrace
  /\ batch' = None
  /\ UNCHANGED <<source, graph_loaded, G, data, pc, bfs>>

\* A call get_bom_list(batch_id).
Bom(batch_id) ==
  /\ bom' = get_bom_list(batch_id)
  /\ op' = "bom"
  /\ target' = batch_id
  /\ trace_mode' = "none"
  /\ raised' = "none"
  /\ positions' = EmptyDict
  /\ stats' = EmptyDict
  /\ NoTrace
  /\ batch' = None
  /\ UNCHANGED <<source, graph_loaded, G, data, pc, bfs>>

\* A call load_mock_batch(batch_id).
LoadMockBatch(batch_id) ==
  /\ batch' = load_mock_batch(batch_id)
  /\ op' = "mock"
  /\ target' = batch_id
  /\ trace_mode' = "none"
  /\ raised' = "none"
  /\ NoResults
  /\ UNCHANGED <<source, graph_loaded, G, data, pc, bfs>>

\* The ids load_mock_batch is called with: a key of the database, "ALL", a
\* batch the records name that is no key, and ids that name nothing.
MockIds == ToSet(batch_db_keys) \cup {"ALL", "all", "B002", "", NoneVal}

\* finished_products of app.py: the options of the "Select Target Product"
\* box, the batches the app passes on as target_batch_id.
FinishedProducts(g) ==
  {n \in NodeSet(g) : Get(g.attrs[n], "type") = "Finished Product"}

\* The targets the graph queries are called with: a selectable batch, None,
\* or an id that names no batch.
Targets ==
  (IF G = None THEN {} ELSE FinishedProducts(G)) \cup {NoneVal, UnknownId}

\* The ids get_bom_list is called with: any batch, None, or an unknown id.
BomTargets == BatchIds \cup {NoneVal, UnknownId}

Next ==
  \/ Load
  \/ \E t \in Targets, mode \in TraceModes : Trace(t, mode)
  \/ \E t \in Targets : Positions(t)
  \/ Analyze
  \/ \E t \in BomTargets : Bom(t)
  \/ \E t \in MockIds : LoadMockBatch(t)

Spec == Init /\ [][Next]_vars

\* ------------------------------------------------- traces on any graph
AbstractIds == <<"n1", "n2", "n3", "n4", "n5">>

Universe == {AbstractIds[i] : i \in 1..MaxNodes}

Kinds == <<"consumed_by", "produces", "coated_with">>

\* The relationship an edge of an abstract graph carries: by the place of its
\* head in AbstractIds, so that the three kinds meet on one path.
KindOf(e) ==
  LET i == CHOOSE j \in 1..Len(AbstractIds) : AbstractIds[j] = e[2]
  IN Kinds[((i - 1) % 3) + 1]

\* The graphs over the universe with at most MaxEdges edges, their nodes
\* inserted in the order of AbstractIds and carrying no attributes.
AbstractGraphs ==
  {[nodes  |-> SelectSeq(SubSeq(AbstractIds, 1, MaxNodes), LAMBDA n : n \in ns),
    attrs  |-> [n \in ns |-> EmptyDict],
    edges  |-> es,
    eattrs |-> [e \in es |-> [relationship |-> KindOf(e)]]] :
     ns \in SUBSET Universe,
     es \in {x \in SUBSET (Universe \X Universe) : Cardinality(x) <= MaxEdges}}

WellFormed(g) == \A e \in g.edges : e[1] \in NodeSet(g) /\ e[2] \in NodeSet(g)

InitTrace ==
  /\ source = create_sample_data
  /\ G \in {g \in AbstractGraphs : WellFormed(g)}
  /\ graph_loaded = TRUE
  /\ data = None
  /\ op = "init"
  /\ target = NoneVal
  /\ trace_mode = "none"
  /\ descendants = {}
  /\ ancestors = {}
  /\ highlight_nodes = {}
  /\ highlight_edges = {}
  /\ positions = EmptyDict
  /\ stats = EmptyDict
  /\ bom = <<>>
  /\ pc = "idle"
  /\ bfs = BfsIdle
  /\ raised = "none"
  /\ batch = None

NextTrace ==
  \E t \in Universe \cup {NoneVal}, mode \in TraceModes : Trace(t, mode)

SpecTrace == InitTrace /\ [][NextTrace]_vars
\* --------------------------------------- the traversal, step by step
\* nx.descendants / nx.ancestors as calculate_trace_highlights calls them,
\* one iteration of the search loop per step.
InitBfs == InitTrace

\* nx.descendants(G, t) (reverse: nx.ancestors(G, t)) is entered; the caller
\* has checked that t is a node of G.
BfsStart(t, reverse) ==
  /\ pc \in {"idle", "done"}
  /\ t \in NodeSet(G)
  /\ pc' = "running"
  /\ bfs' = BfsInit(t)
  /\ op' = "traverse"
  /\ target' = t
  /\ trace_mode' = IF reverse THEN "backward" ELSE "forward"
  /\ raised' = "none"
  /\ NoResults
  /\ UNCHANGED <<source, graph_loaded, G, data, batch>>

\* One iteration of the loop.
BfsIterate ==
  /\ pc = "running"
  /\ bfs.queue # <<>>
  /\ bfs' = BfsStep(G, bfs, trace_mode = "backward")
  /\ UNCHANGED <<source, graph_loaded, G, data, op, target, trace_mode,
                 descendants, ancestors, highlight_nodes, highlight_edges,
                 positions, stats, bom, pc, raised, batch>>

\* The queue is empty: the set of yielded nodes is returned.
BfsReturn ==
  /\ pc = "running"
  /\ bfs.queue = <<>>
  /\ pc' = "done"
  /\ IF trace_mode = "backward"
       THEN ancestors' = bfs.out /\ UNCHANGED descendants
       ELSE descendants' = bfs.out /\ UNCHANGED ancestors
  /\ UNCHANGED <<source, graph_loaded, G, data, op, target, trace_mode,
                 highlight_nodes, highlight_edges, positions, stats, bom,
                 bfs, raised, batch>>

NextBfs ==
  \/ \E t \in Universe, reverse \in BOOLEAN : BfsStart(t, reverse)
  \/ BfsIterate
  \/ BfsReturn

\* The code is synchronous and single-threaded: a loop that can iterate
\* does, and a call whose loop has ended returns.
SpecBfs ==
  InitBfs /\ [][NextBfs]_vars /\ WF_vars(BfsIterate) /\ WF_vars(BfsReturn)
\* ------------------------------------------------- the app, run by run
\* Streamlit executes app.py from top to bottom once per interaction; only
\* st.session_state (graph_loaded, G, data) lives from one run to the next.

\* A data source whose frame has no batch_id column.
NoBatchIdColumn ==
  [rows |->
     [i \in 1..Len(create_sample_data.rows) |->
        [c \in DOMAIN create_sample_data.rows[i] \ {"batch_id"} |->
           create_sample_data.rows[i][c]]]]

\* What the data source returns over the life of a session: the sample data,
\* the sample data before any finished product or before the first one was
\* recorded, or a frame the build cannot read.
AppSources ==
  {create_sample_data,
   DataFrame(raw_materials \o intermediates),
   DataFrame(Without(all_batches, {"FP-TAB-001"})),
   NoBatchIdColumn}

\* node_attrs.pop('batch_id') raises KeyError on a row without the key.
build_raises(d) ==
  \E i \in 1..Len(d.rows) : "batch_id" \notin DOMAIN d.rows[i]

\* Mutant: the graph is built in every run, clicked or not.
LoadButtonEveryRun(clicked, sess, src) ==
  IF build_raises(src)
    THEN [sess EXCEPT !.graph_loaded = FALSE, !.raised = "KeyError"]
    ELSE [G |-> build_batch_genealogy_graph(src), data |-> src,
          graph_loaded |-> TRUE, raised |-> "none"]

\* Mutant: graph_loaded is set before the build and not cleared when it fails.
LoadButtonFlagFirst(clicked, sess, src) ==
  IF ~clicked THEN sess
  ELSE IF build_raises(src)
    THEN [sess EXCEPT !.graph_loaded = TRUE, !.raised = "KeyError"]
    ELSE [G |-> build_batch_genealogy_graph(src), data |-> src,
          graph_loaded |-> TRUE, raised |-> "none"]

\* Mutant: the except branch leaves graph_loaded as it was.
LoadButtonKeepsLoaded(clicked, sess, src) ==
  IF ~clicked THEN sess
  ELSE IF build_raises(src)
    THEN [sess EXCEPT !.raised = "KeyError"]
    ELSE [G |-> build_batch_genealogy_graph(src), data |-> src,
          graph_loaded |-> TRUE, raised |-> "none"]

\* The "Load & Visualize Batch Tree" block: the session state after it, and
\* the exception its except branch caught. The three slots are assigned
\* after the build has returned.
LoadButton(clicked, sess, src) ==
  IF ~clicked THEN sess
  ELSE IF build_raises(src)
    THEN [sess EXCEPT !.graph_loaded = FALSE, !.raised = "KeyError"]
    ELSE [G |-> build_batch_genealogy_graph(src), data |-> src,
          graph_loaded |-> TRUE, raised |-> "none"]

\* finished_products of app.py, in node order: the options of the
\* "Select Target Product" box.
SelectOptions(g) ==
  IF g = None THEN <<>>
  ELSE SelectSeq(g.nodes,
                 LAMBDA n : Get(g.attrs[n], "type") = "Finished Product")

\* What the user did to cause a run; "rerun" is the run st.rerun() starts.
\* tree_style is read and used nowhere: a style change is a plain run.
Clicks == {"load", "refresh", "export", "select", "style", "rerun"}

\* Mutant: the box keeps its value when its options have changed.
SelectionsStale(click, opts) ==
  IF opts = <<>> THEN {NoneVal}
  ELSE IF stats = EmptyDict THEN {opts[1]}
  ELSE IF click = "select" THEN ToSet(opts) \ {target}
  ELSE {target}

\* The values selected_batch may have: None without options, the first
\* option when the box is new (not shown in the previous run, or shown with
\* other options), any other option when the user picks one, else the value
\* the widget kept.
Selections(click, opts) ==
  IF opts = <<>> THEN {NoneVal}
  ELSE IF stats = EmptyDict \/ opts # SelectOptions(G) THEN {opts[1]}
  ELSE IF click = "select" THEN ToSet(opts) \ {target}
  ELSE {target}

\* One run of app.py.
Run(click) ==
  /\ IF click = "rerun" THEN pc = "rerun" ELSE pc = "idle"
  /\ click \in {"refresh", "export", "select", "style"} => stats # EmptyDict
  /\ LET sess == LoadButton(click = "load",
                            [G |-> G, data |-> data,
                             graph_loaded |-> graph_loaded, raised |-> "none"],
                            source)
         dashboard == sess.graph_loaded /\ sess.G # None
     IN /\ G' = sess.G
        /\ data' = sess.data
        /\ graph_loaded' = sess.graph_loaded
        /\ op' = click
        /\ trace_mode' = "none"
        /\ pc' = IF click = "refresh" THEN "rerun" ELSE "idle"
        /\ descendants' = {}
        /\ ancestors' = {}
        /\ IF ~dashboard
             THEN \* the welcome screen
                  /\ raised' = sess.raised
                  /\ target' = NoneVal
                  /\ highlight_nodes' = {} /\ highlight_edges' = {}
                  /\ NoOther
             ELSE IF Len(sess.G.nodes) = 0
             THEN \* analyze_graph raises and ends the run
                  /\ raised' = "NetworkXPointlessConcept"
                  /\ target' = NoneVal
                  /\ highlight_nodes' = {} /\ highlight_edges' = {}
                  /\ NoOther
             ELSE /\ raised' = sess.raised
                  /\ stats' = analyze_graph(sess.G)
                  /\ \E selected_batch \in Selections(click, SelectOptions(sess.G)) :
                       /\ target' = selected_batch
                       /\ IF click = "refresh" \/ ~Truthy(selected_batch)
                            THEN \* st.rerun() ends the run / nothing selected
                                 /\ highlight_nodes' = {} /\ highlight_edges' = {}
                                 /\ positions' = EmptyDict
                                 /\ bom' = <<>>
                            ELSE /\ \E r \in calculate_trace_highlights(sess.G, selected_batch, "none") :
                                      /\ highlight_nodes' = r.highlight_nodes
                                      /\ highlight_edges' = r.highlight_edges
                                 /\ positions' = calculate_pharma_positions(sess.G, selected_batch)
                                 /\ bom' = get_bom_list(selected_batch)
  /\ UNCHANGED <<source, bfs, batch>>

\* Between two runs the data source comes to return something else.
ReplaceDataSource ==
  /\ source' \in AppSources \ {source}
  /\ UNCHANGED <<graph_loaded, G, data, op, target, trace_mode, descendants,
                 ancestors, highlight_nodes, highlight_edges, positions,
                 stats, bom, pc, bfs, raised, batch>>

InitApp ==
  /\ source \in AppSources
  /\ graph_loaded = FALSE
  /\ G = None
  /\ data = None
  /\ op = "init"
  /\ target = NoneVal
  /\ trace_mode = "none"
  /\ descendants = {}
  /\ ancestors = {}
  /\ highlight_nodes = {}
  /\ highlight_edges = {}
  /\ positions = EmptyDict
  /\ stats = EmptyDict
  /\ bom = <<>>
  /\ pc = "idle"
  /\ bfs = BfsIdle
  /\ raised = "none"
  /\ batch = None

NextApp ==
  \/ \E click \in Clicks : Run(click)
  \/ ReplaceDataSource

SpecApp == InitApp /\ [][NextApp]_vars

\* -------------------------------------------------------------- claims
\* Reachability as the claims state it: <<u, v>> is in PathRel(g) iff a
\* directed path of one or more edges leads from u to v.
RECURSIVE Closure(_, _)
Closure(R, ks) ==
  IF ks = {} THEN R
  ELSE LET k == CHOOSE x \in ks : TRUE
           R1 == R \cup {<<e[1], f[2]>> : e \in {d \in R : d[2] = k},
                                          f \in {d \in R : d[1] = k}}
       IN IF R1 = {} THEN R1 ELSE Closure(R1, ks \ {k})

PathRel(g) == Closure(g.edges, NodeSet(g))

PathAncestors(g, t) == {n \in NodeSet(g) \ {t} : <<n, t>> \in PathRel(g)}

PathDescendants(g, t) == {n \in NodeSet(g) \ {t} : <<t, n>> \in PathRel(g)}

\* The most recent operation was a trace of a node of the graph.
TracedNode == op = "trace" /\ target \in NodeSet(G)

\* C1: a query whose target identifier is not present (a trace of a target
\* that is no node of G, a bill of materials for an id that names no batch)
\* is reported as an UnknownEntityError, never answered with empty results.
C1_UnknownTargetIsError ==
  ( \/ op = "trace" /\ target \notin NodeSet(G)
    \/ op = "bom" /\ target \notin BatchIds )
  => raised = "UnknownEntityError"

\* C2 as stated: the trace of a node of G with direction none returns an
\* empty highlighted node set and an empty highlighted edge set.
C2_NoneReturnsEmpty ==
  (TracedNode /\ trace_mode = "none")
  => (highlight_nodes = {} /\ highlight_edges = {})

\* C2, amended: the trace of a node of G with direction none returns the
\* highlighted node set {target} and an empty highlighted edge set.
C2_NoneReturnsTarget ==
  (TracedNode /\ trace_mode = "none")
  => (highlight_nodes = {target} /\ highlight_edges = {})

C2_Witness ==
  /\ TracedNode /\ trace_mode = "none"
  /\ successors(G, target) # {} /\ predecessors(G, target) # {}

\* C3: the highlighted node set of a trace of a node of G is ancestors u
\* descendants u {target} for both, descendants u {target} for forward and
\* ancestors u {target} for backward.
C3_HighlightedNodes ==
  TracedNode =>
    /\ trace_mode = "both" =>
         highlight_nodes =
           PathAncestors(G, target) \cup PathDescendants(G, target) \cup {target}
    /\ trace_mode = "forward" =>
         highlight_nodes = PathDescendants(G, target) \cup {target}
    /\ trace_mode = "backward" =>
         highlight_nodes = PathAncestors(G, target) \cup {target}

C3_Witness ==
  /\ TracedNode /\ trace_mode = "both"
  /\ PathAncestors(G, target) \ PathDescendants(G, target) # {}
  /\ PathDescendants(G, target) \ PathAncestors(G, target) # {}
  /\ highlight_nodes = NodeSet(G)

\* C4: the ancestor set of the backward trace is exactly the set of nodes
\* other than the target with a directed path to it, over edges of every
\* relationship kind; the descendant set of the forward trace is exactly the
\* set of nodes other than the target reachable from it; the target is in
\* neither.
C4_ReachabilitySets ==
  TracedNode =>
    /\ trace_mode \in {"backward", "both"} =>
         ancestors = PathAncestors(G, target) /\ target \notin ancestors
    /\ trace_mode \in {"forward", "both"} =>
         descendants = PathDescendants(G, target) /\ target \notin descendants

\* A trace of a node on a cycle whose paths run over two relationship kinds.
C4_Witness ==
  /\ TracedNode /\ trace_mode = "both"
  /\ <<target, target>> \in PathRel(G)
  /\ descendants # {} /\ ancestors # {}
  /\ Cardinality({G.eattrs[e].relationship : e \in G.edges}) >= 2

\* C5: b is in the descendant set computed for a iff a is in the ancestor
\* set computed for b.
C5_Symmetry ==
  TracedNode =>
    /\ trace_mode \in {"forward", "both"} =>
         \A b \in NodeSet(G) :
           b \in descendants <=> target \in nx_ancestors(G, b)
    /\ trace_mode \in {"backward", "both"} =>
         \A a \in NodeSet(G) :
           a \in ancestors <=> target \in nx_descendants(G, a)

C5_Witness ==
  /\ TracedNode /\ trace_mode = "forward"
  /\ descendants # {}
  /\ \E b \in descendants : target \notin nx_descendants(G, b)

\* C6: the ancestor / descendant computation terminates on every finite
\* graph, with directed cycles and self-loops too, and returns the correct
\* reachability set, each node yielded at most once.
C6_TraversalTerminates ==
  /\ [](pc = "done" =>
          /\ ~bfs.dup
          /\ trace_mode = "forward" => descendants = PathDescendants(G, target)
          /\ trace_mode = "backward" => ancestors = PathAncestors(G, target))
  /\ (pc = "running" ~> pc = "done")

\* A traversal that has returned, from a node on a directed cycle.
C6_Witness ==
  /\ pc = "done"
  /\ <<target, target>> \in PathRel(G)
  /\ <<target, target>> \notin G.edges
  /\ descendants # {}

\* C7: a query (calculate_trace_highlights, calculate_pharma_positions,
\* analyze_graph) leaves the graph as it was: the same nodes, edges and
\* attributes.
C7_QueriesReadOnly ==
  [][op' \in {"trace", "positions", "analyze"} => G' = G]_vars

\* The layout of a graph with a target that is a node of it was computed.
C7_Witness ==
  /\ op = "positions"
  /\ target \in NodeSet(G)
  /\ positions[target] = [x |-> 700, y |-> 400]

Declared == all_edges \o additional_relationships

\* C8: the graph built from the records of create_sample_data has one node
\* per record (13), carrying the record's fields other than batch_id, and one
\* edge per declared relationship (18), from the tuple's first id to its
\* second, carrying the tuple's relationship, quantity and unit.
C8_BuiltGraph ==
  (graph_loaded /\ data = create_sample_data) =>
    /\ Len(G.nodes) = 13
    /\ G.nodes = [i \in 1..Len(data.rows) |-> data.rows[i].batch_id]
    /\ \A i \in 1..Len(data.rows) :
         G.attrs[data.rows[i].batch_id] =
           [c \in DOMAIN data.rows[i] \ {"batch_id"} |-> data.rows[i][c]]
    /\ Cardinality(G.edges) = 18
    /\ G.edges = {<<Declared[i][1], Declared[i][2]>> : i \in 1..Len(Declared)}
    /\ \A i \in 1..Len(Declared) :
         G.eattrs[<<Declared[i][1], Declared[i][2]>>] = Declared[i][3]

C8_Witness ==
  /\ graph_loaded /\ data = create_sample_data
  /\ G.attrs["FP-CAP-001"].manufacturing_date = <<2024, 3, 25>>
  /\ G.attrs["INT-SOL-001"].lot = NaN

RecordIds(d) == {d.rows[i].batch_id : i \in 1..Len(d.rows)}

C10_Acyclic ==
  graph_loaded =>
    /\ \A n \in NodeSet(G) : <<n, n>> \notin PathRel(G)
    /\ \A n \in NodeSet(G) : nx_ancestors(G, n) \cap nx_descendants(G, n) = {}

C10_Witness ==
  /\ graph_loaded
  /\ Cardinality(G.edges) = 18
  /\ nx_ancestors(G, "INT-GRAN-001") # {}
  /\ nx_descendants(G, "INT-GRAN-001") # {}

\* The type a node of g carries (None for a node without the attribute) and
\* its place in the material flow.
TypeOf(g, n) == Get(g.attrs[n], "type")

Stage(ty) ==
  CASE ty = "Raw Material" -> 0
    [] ty = "Intermediate" -> 1
    [] ty = "Finished Product" -> 2
    [] OTHER -> -1

\* C11: every edge of the built graph, whatever its relationship, points
\* from the consumed / earlier entity to the consuming / later one: no edge
\* ends at a Raw Material node, none starts at a Finished Product node, no
\* edge is stored in both directions, no edge leads back to an earlier stage,
\* and every consumed_by edge runs from the material to a consumer of a later
\* stage.
C11_CanonicalDirection ==
  graph_loaded =>
    \A e \in G.edges :
      LET su == Stage(TypeOf(G, e[1]))
          sv == Stage(TypeOf(G, e[2]))
      IN /\ sv # 0
         /\ su # 2
         /\ <<e[2], e[1]>> \notin G.edges
         /\ (su >= 0 /\ sv >= 0) => su <= sv
         /\ (G.eattrs[e].relationship = "consumed_by" /\ su >= 0 /\ sv >= 0)
              => su < sv

\* The graph of the whole sample data: edges of the three relationships, a
\* consumption by an intermediate and one by a finished product.
C11_Witness ==
  /\ graph_loaded /\ data = create_sample_data
  /\ {G.eattrs[e].relationship : e \in G.edges}
       = {"consumed_by", "produces", "coated_with"}
  /\ G.eattrs[<<"RM-EXC-001", "FP-CAP-001">>].relationship = "consumed_by"
  /\ G.eattrs[<<"RM-EXC-003", "INT-BLEND-001">>].relationship = "consumed_by"

\* The run that led to the state showed the dashboard: it read the session's
\* graph for the statistics of the sidebar (and for the tree, when drawn).
DashboardShown == op \in Clicks /\ stats # EmptyDict

C13_FailedLoadKeepsSession ==
  [][(op' = "load" /\ raised' # "none")
      => (G' = G /\ data' = data /\ ~graph_loaded' /\ ~DashboardShown'
          /\ positions' = EmptyDict /\ bom' = <<>>)]_vars

\* A Load click whose build raised, in a session that held a graph.
C13_Witness ==
  /\ op = "load" /\ raised = "KeyError"
  /\ G # None /\ Len(G.nodes) = 13
  /\ ~graph_loaded

\* C14: every entry of the bill of materials get_bom_list(target) returns
\* names a member of the ancestor set of the target in the built graph.
C14_BomEntriesAreAncestors ==
  (op = "bom" /\ graph_loaded) =>
    \A i \in 1..Len(bom) : bom[i].batch_id \in PathAncestors(G, target)

\* The bill of materials of FP-TAB-003 on the built graph: three of its
\* ancestors.
C14_Witness ==
  /\ op = "bom" /\ graph_loaded /\ target = "FP-TAB-003"
  /\ Len(bom) = 3
  /\ "RM-EXC-003" \in NodeSet(G) \ PathAncestors(G, target)

\* C15: the bill of materials of a target of the built graph lists every
\* ancestor of the target whose type is Raw Material or Intermediate.
C15_BomListsAllAncestors ==
  (op = "bom" /\ graph_loaded /\ target \in NodeSet(G)) =>
    \A a \in PathAncestors(G, target) :
      TypeOf(G, a) \in {"Raw Material", "Intermediate"}
        => \E i \in 1..Len(bom) : bom[i].batch_id = a

\* The pairs <<u, v>> with a directed path of exactly k edges from u to v.
Compose(R, S) ==
  {<<p[1][1], p[2][2]>> : p \in {q \in R \X S : q[1][2] = q[2][1]}}

RECURSIVE StepRel(_, _)
StepRel(g, k) ==
  IF k = 1 THEN g.edges ELSE Compose(StepRel(g, k - 1), g.edges)

\* The numbers of hops of the directed paths from u to v.
HopCounts(g, u, v) == {k \in 1..Len(g.nodes) : <<u, v>> \in StepRel(g, k)}

\* C16: every row of the bill of materials carries a level, the number of
\* hops from the target less one (its direct inputs are level 0), and the
\* levels do not decrease along the rows.
C16_BomLevels ==
  (op = "bom" /\ graph_loaded /\ target \in NodeSet(G)) =>
    /\ \A i \in 1..Len(bom) :
         /\ "level" \in DOMAIN bom[i]
         /\ bom[i].level + 1 \in HopCounts(G, bom[i].batch_id, target)
    /\ \A i, j \in 1..Len(bom) : i < j => bom[i].level <= bom[j].level

\* The length of a shortest directed path from u to v (v reachable from u).
Dist(g, u, v) ==
  IF u = v THEN 0
  ELSE CHOOSE k \in HopCounts(g, u, v) : \A j \in HopCounts(g, u, v) : k <= j

Reaches(g, u, v) == u = v \/ <<u, v>> \in PathRel(g)

\* The edge e of g lies on a shortest path from s to d.
OnShortestPath(g, s, d, e) ==
  /\ e \in g.edges
  /\ Reaches(g, s, e[1]) /\ Reaches(g, e[2], d)
  /\ Dist(g, s, e[1]) + 1 + Dist(g, e[2], d) = Dist(g, s, d)

\* C17: the highlighted edges are a set of edges of G apart from the node
\* set; for forward, backward and both each of them lies on a shortest path
\* from the target to one of its descendants (forward, both) or from one of
\* its ancestors to the target (backward, both), so an edge on no such path
\* is never highlighted.
C17_HighlightedEdges ==
  (TracedNode /\ trace_mode \in {"forward", "backward", "both"}) =>
    /\ highlight_edges \subseteq G.edges
    /\ \A e \in highlight_edges :
         \/ /\ trace_mode \in {"forward", "both"}
            /\ \E d \in PathDescendants(G, target) :
                 OnShortestPath(G, target, d, e)
         \/ /\ trace_mode \in {"backward", "both"}
            /\ \E a \in PathAncestors(G, target) :
                 OnShortestPath(G, a, target, e)

\* A trace in both directions that leaves out an edge between two
\* highlighted nodes.
C17_Witness ==
  /\ TracedNode /\ trace_mode = "both"
  /\ ancestors # {} /\ descendants # {}
  /\ highlight_edges # {}
  /\ \E e \in G.edges \ highlight_edges :
       e[1] \in highlight_nodes /\ e[2] \in highlight_nodes /\ e[1] # e[2]

\* C19: the backward trace of a node of G with no incoming edge yields an
\* empty ancestor set, the forward trace of a node with no outgoing edge an
\* empty descendant set, each with no error and no highlighted edge.
C19_NoEdgesEmptySet ==
  TracedNode =>
    /\ (trace_mode = "backward" /\ {e \in G.edges : e[2] = target} = {})
         => (ancestors = {} /\ highlight_edges = {}
             /\ highlight_nodes = {target} /\ raised = "none")
    /\ (trace_mode = "forward" /\ {e \in G.edges : e[1] = target} = {})
         => (descendants = {} /\ highlight_edges = {}
             /\ highlight_nodes = {target} /\ raised = "none")

\* The backward trace of a node that has outgoing edges only.
C19_Witness ==
  /\ TracedNode /\ trace_mode = "backward"
  /\ {e \in G.edges : e[2] = target} = {}
  /\ {e \in G.edges : e[1] = target} # {}
  /\ ancestors = {} /\ highlight_edges = {}

\* The traversal of the trace meets a directed cycle: a node it reaches (the
\* target included) lies on one.
OnCycle(g, n) == <<n, n>> \in PathRel(g)

MeetsCycle ==
  \/ /\ trace_mode \in {"forward", "both"}
     /\ \E n \in PathDescendants(G, target) \cup {target} : OnCycle(G, n)
  \/ /\ trace_mode \in {"backward", "both"}
     /\ \E n \in PathAncestors(G, target) \cup {target} : OnCycle(G, n)

\* C20: a trace whose traversal meets a directed cycle is not aborted and
\* gives its caller a CycleDetectedWarning alongside the result.
C20_CycleSignalled ==
  (TracedNode /\ MeetsCycle) =>
    /\ highlight_nodes # {}
    /\ raised = "CycleDetectedWarning"

\* C21: in every state of the session, after any sequence of Load attempts
\* (the build returning or raising) and other interactions, graph_loaded
\* implies that the session's G and data are both set; the dashboard branch
\* never runs without a graph.
C21_LoadedHasGraph ==
  /\ graph_loaded => (G # None /\ data # None)
  /\ DashboardShown => (graph_loaded /\ G # None)

\* A Load whose build returned: the session holds the graph and the data of
\* a source other than the whole sample data, and the dashboard is shown.
C21_Witness ==
  /\ graph_loaded /\ op = "load" /\ raised = "none"
  /\ G # None /\ data = source /\ data # create_sample_data
  /\ DashboardShown

\* C22: the dashboard is shown in a run iff a Load attempt has happened and
\* the most recent one succeeded. No run shows it before the first attempt;
\* a run with a Load click shows it iff the build returned; any other run
\* shows it iff the run before did. So a failed Load after a successful one
\* brings back the welcome screen, with the earlier graph still in the
\* session, until a later Load succeeds.
C22_DashboardIffLastLoadSucceeded ==
  /\ op = "init" => ~DashboardShown
  /\ [][op' \in Clicks =>
          (DashboardShown' <=>
             IF op' = "load" THEN raised' = "none" ELSE DashboardShown)]_vars

\* The welcome screen after a failed Load, the graph of the sample data
\* still held in the session.
C22_Witness ==
  /\ op = "load" /\ raised # "none"
  /\ ~DashboardShown /\ stats = EmptyDict /\ target = NoneVal
  /\ G # None /\ data = create_sample_data

\* The run drew the tree: render_genealogy_graph was called.
TreeDrawn == op \in Clicks /\ positions # EmptyDict

\* C23: every render of the app calls render_genealogy_graph with trace
\* mode none: the highlighted node set is {selected batch}, the highlighted
\* edge set is empty, and no ancestor or descendant is highlighted.
C23_AppNeverTraces ==
  TreeDrawn =>
    /\ trace_mode = "none"
    /\ highlight_nodes = {target}
    /\ highlight_edges = {}
    /\ ancestors = {} /\ descendants = {}

\* The tree drawn for a product that has ancestors in the graph.
C23_Witness ==
  /\ TreeDrawn /\ target = "FP-TAB-003"
  /\ PathAncestors(G, target) # {}
  /\ highlight_nodes = {"FP-TAB-003"}

\* C24: whenever the dashboard is shown, selected_batch is None, and then G
\* has no node of type Finished Product, or a node of G of that type: no
\* lookup is made for an id absent from G. For the graph built from the
\* sample data the options are FP-TAB-001, FP-TAB-002, FP-TAB-003 and
\* FP-CAP-001.
C24_SelectedIsFinishedProduct ==
  /\ DashboardShown =>
       \/ target = NoneVal /\ FinishedProducts(G) = {}
       \/ target \in NodeSet(G) /\ TypeOf(G, target) = "Finished Product"
  /\ (G # None /\ data = create_sample_data) =>
       SelectOptions(G) = <<"FP-TAB-001", "FP-TAB-002", "FP-TAB-003", "FP-CAP-001">>

\* The dashboard of a graph in which FP-TAB-001 is a node without a type:
\* the box starts at FP-TAB-002.
C24_Witness ==
  /\ DashboardShown /\ target = "FP-TAB-002"
  /\ "FP-TAB-001" \in NodeSet(G)
  /\ TypeOf(G, "FP-TAB-001") = NoneVal

\* C25: every row of a bill of materials agrees with the graph built from the
\* sample data: its batch_id is a node of the graph and its material, type
\* and status are that node's material, type and status.
C25_BomMatchesGraph ==
  (op = "bom" /\ graph_loaded /\ data = create_sample_data) =>
    \A i \in 1..Len(bom) :
      /\ bom[i].batch_id \in NodeSet(G)
      /\ bom[i].material = Get(G.attrs[bom[i].batch_id], "material")
      /\ bom[i].type = Get(G.attrs[bom[i].batch_id], "type")
      /\ bom[i].status = Get(G.attrs[bom[i].batch_id], "status")

\* The graph of the highlighted edges over the nodes of g.
HighlightGraph(g, es) == [g EXCEPT !.edges = es]

\* C26: for forward, backward and both the highlighted edges connect the
\* highlighted nodes to the target: every highlighted descendant is reached
\* from the target, and every highlighted ancestor reaches it, by a directed
\* path of highlighted edges only, and both ends of every highlighted edge
\* are highlighted nodes.
C26_HighlightConnected ==
  (TracedNode /\ trace_mode \in {"forward", "backward", "both"}) =>
    /\ \A d \in descendants :
         <<target, d>> \in PathRel(HighlightGraph(G, highlight_edges))
    /\ \A a \in ancestors :
         <<a, target>> \in PathRel(HighlightGraph(G, highlight_edges))
    /\ \A e \in highlight_edges :
         e[1] \in highlight_nodes /\ e[2] \in highlight_nodes

\* A trace in both directions of a target between an ancestor and a
\* descendant, off any cycle.
C26_Witness ==
  /\ TracedNode /\ trace_mode = "both"
  /\ ancestors # {} /\ descendants # {}
  /\ ancestors \cap descendants = {}
  /\ Cardinality(highlight_edges) >= 2

\* C28: calculate_pharma_positions gives no two distinct nodes the same
\* (x, y), over the columns, the grid of the remaining nodes and the target
\* moved to (700, 400).
C28_PositionsDistinct ==
  op = "positions" =>
    \A n, m \in DOMAIN positions : n # m => positions[n] # positions[m]

\* C27: load_mock_batch(batch_id) returns the record whose batch.id is
\* batch_id for every key of the mock database, the list of all four records
\* for "ALL", and for any other id the record of batch B001, no error and no
\* empty result: the id of the record returned then differs from the id
\* asked for.
C27_MockBatchDefaultsToB001 ==
  op = "mock" =>
    /\ raised = "none"
    /\ target \in DOMAIN batch_db =>
         (batch = batch_db[target] /\ batch.batch.id = target)
    /\ target = "ALL" =>
         /\ Len(batch) = 4
         /\ {batch[i].batch.id : i \in 1..Len(batch)} = DOMAIN batch_db
         /\ \A i \in 1..Len(batch) : batch[i] = batch_db[batch[i].batch.id]
    /\ target \notin DOMAIN batch_db \cup {"ALL"} =>
         (batch = batch_db["B001"] /\ batch.batch.id = "B001"
          /\ batch.batch.id # target)

\* B002, a child the record of API-2025-12-15 names, is no key: the record
\* of B001 is returned for it.
C27_Witness ==
  /\ op = "mock" /\ target = "B002"
  /\ "B002" \in ToSet(batch_db["API-2025-12-15"].children)
  /\ batch.batch.id = "B001"
====
